---- MODULE Spec2Model ----
(***************************************************************************)
(* Model of the OpenSSL build driver of feenkcom/libopenssl:               *)
(*   library/src/openssl_library.rs  (OpenSSLLibrary, its Library impl,    *)
(*                                    configure_android_path)             *)
(*   library/src/lib.rs              (libcrypto / libssl constructors)     *)
(*   builder/src/main.rs             (the builder's main)                  *)
(*                                                                         *)
(* Paths are sequences of components; display() joins them with "/" the    *)
(* way PathBuf::display prints them.  Command-line arguments are strings   *)
(* built with \o exactly where the source uses format!.  An environment    *)
(* is a set of <<name, value>> pairs.  External processes (Configure,      *)
(* make, nmake) are nondeterministic: any exit status, and any of a few    *)
(* sets of files written below their working directory / prefix.           *)
(***************************************************************************)
EXTENDS Integers, Sequences, FiniteSets, TLC

\* Total number of build invocations (Library::compile calls) explored.
MaxBuilds == 3

----------------------------------------------------------------------------
(* LibraryArtefact and LibraryTarget *)

Artefacts == {"Crypto", "Ssl"}

Targets ==
    { "X8664appleDarwin", "AArch64appleDarwin",
      "X8664pcWindowsMsvc", "AArch64pcWindowsMsvc",
      "X8664UnknownlinuxGNU", "AArch64UnknownlinuxGNU",
      "AArch64LinuxAndroid" }

is_windows(t) == t \in {"X8664pcWindowsMsvc", "AArch64pcWindowsMsvc"}

is_android(t) == t = "AArch64LinuxAndroid"

is_unix(t) ==
    t \in { "X8664appleDarwin", "AArch64appleDarwin",
            "X8664UnknownlinuxGNU", "AArch64UnknownlinuxGNU",
            "AArch64LinuxAndroid" }

\* LibraryCompilationContext::profile
profile(ctx) == IF ctx.debug THEN "debug" ELSE "release"

\* The Android API levels a context may carry.
ApiLevels == {21, 30}

----------------------------------------------------------------------------
(* Paths and environments *)

join(p, c) == Append(p, c)

RECURSIVE display(_)
display(p) ==
    IF p = <<>> THEN ""
    ELSE IF Len(p) = 1 THEN p[1]
    ELSE display(SubSeq(p, 1, Len(p) - 1)) \o "/" \o p[Len(p)]

IsPrefix(p, q) == Len(p) <= Len(q) /\ SubSeq(q, 1, Len(p)) = p

Ancestors(p) == { SubSeq(p, 1, n) : n \in 1..Len(p) }

exists(f, p) == p \in f

\* std::fs::create_dir_all: the directory and every missing ancestor.
create_dir_all(f, p) == f \cup Ancestors(p)

EnvNames(e) == { kv[1] : kv \in e }

HasVar(e, k) == k \in EnvNames(e)

Var(e, k) == (CHOOSE kv \in e : kv[1] = k)[2]

\* Command::envs / Command::env on a command that was not env_clear()ed:
\* the child sees the parent's variables with the given ones laid over them.
Overlay(base, over) == { kv \in base : kv[1] \notin EnvNames(over) } \cup over

NoCommand == [program |-> "", args |-> <<>>, current_dir |-> <<>>, envs |-> {}]

----------------------------------------------------------------------------
(* State *)

VARIABLES
    context,        \* LibraryCompilationContext: sources_root, build_root, target, debug, android_target_api
    options,        \* per descriptor: LibraryOptions (is_static)
    active,         \* the descriptors that exist in this run
    tools,          \* programs which::which resolves
    env,            \* the process environment
    ndk_toolchain,  \* Ndk::from_env()...toolchain_dir(): <<>> when it cannot be located
    msvc,           \* the tool cc::Build::get_compiler() reports: path, env, nmake.exe beside it
    fs,             \* the directories and files that exist
    pc,             \* per descriptor: idle, configuring, installing, done, failed
    error,          \* per descriptor: the panic message of a failed build
    steps,          \* per descriptor: what the current invocation did, in order
    child,          \* per descriptor: the command most recently spawned by the current invocation
    builds,         \* per descriptor: invocations started
    cfgTotal,       \* per descriptor: Configure processes spawned over all invocations
    preMarker,      \* per descriptor: was the makefile there when each invocation started
    result          \* what the most recent accessor call returned (NoResult after any other step)

inputs == <<context, options, active, tools, env, ndk_toolchain, msvc>>

vars == <<context, options, active, tools, env, ndk_toolchain, msvc,
          fs, pc, error, steps, child, builds, cfgTotal, preMarker, result>>

NoResult == [op |-> "none", artefact |-> "none", dirs |-> <<>>, text |-> ""]

----------------------------------------------------------------------------
(* OpenSSLLibrary *)

\* Mutant: be_ssl has no effect on the name.
name_always_crypto(a) == "crypto"

name(a) == IF a = "Crypto" THEN "crypto" ELSE "ssl"

\* Mutant: the x86_64 Linux entry names the gcc configuration.
compiler_linux_gcc(t) ==
    CASE t = "X8664appleDarwin"       -> "darwin64-x86_64-cc"
      [] t = "AArch64appleDarwin"     -> "darwin64-arm64-cc"
      [] t = "X8664pcWindowsMsvc"     -> "VC-WIN64A"
      [] t = "AArch64pcWindowsMsvc"   -> "VC-WIN64-ARM"
      [] t = "X8664UnknownlinuxGNU"   -> "linux-x86_64"
      [] t = "AArch64UnknownlinuxGNU" -> "linux-aarch64"
      [] t = "AArch64LinuxAndroid"    -> "android-arm64"

compiler(t) ==
    CASE t = "X8664appleDarwin"       -> "darwin64-x86_64-cc"
      [] t = "AArch64appleDarwin"     -> "darwin64-arm64-cc"
      [] t = "X8664pcWindowsMsvc"     -> "VC-WIN64A"
      [] t = "AArch64pcWindowsMsvc"   -> "VC-WIN64-ARM"
      [] t = "X8664UnknownlinuxGNU"   -> "linux-x86_64-clang"
      [] t = "AArch64UnknownlinuxGNU" -> "linux-aarch64"
      [] t = "AArch64LinuxAndroid"    -> "android-arm64"

is_static(a) == options[a].is_static

\* Library::source_directory: both descriptors build from the one checkout.
source_directory(a) == join(context.sources_root, "openssl")

native_library_prefix(a) == join(join(context.build_root, name(a)), "build")

makefile_dir(a) == join(context.build_root, name(a))

\* Mutant: make is not looked for.
ensure_requirements_without_make(t, found) ==
    IF "perl" \notin found THEN "Could not find perl"
    ELSE IF is_windows(t) /\ "nasm" \notin found THEN "Could not find nasm"
    ELSE ""

ensure_requirements(t, found) ==
    IF "perl" \notin found THEN "Could not find perl"
    ELSE IF is_unix(t) /\ "make" \notin found THEN "Could not find make"
    ELSE IF is_windows(t) /\ "nasm" \notin found THEN "Could not find nasm"
    ELSE ""

\* Mutant: lib on every target.
compiled_library_directories_lib_only(a) == << join(native_library_prefix(a), "lib") >>

compiled_library_directories(a) ==
    IF is_unix(context.target) THEN << join(native_library_prefix(a), "lib") >>
    ELSE IF is_windows(context.target) THEN << join(native_library_prefix(a), "bin") >>
    ELSE <<>>

native_library_include_headers(a, f) ==
    LET directory == join(native_library_prefix(a), "include")
    IN  IF exists(f, directory) THEN <<directory>> ELSE <<>>

native_library_linker_libraries(a, f) ==
    LET directory == join(native_library_prefix(a), "lib")
    IN  IF exists(f, directory) THEN <<directory>> ELSE <<>>

\* Mutant: the directory is returned without looking for it.
pkg_config_directory_unchecked(a, f) ==
    << join(join(native_library_prefix(a), "lib"), "pkgconfig") >>

\* Option<PathBuf>: <<>> is None, <<p>> is Some(p).
pkg_config_directory(a, f) ==
    LET directory == join(join(native_library_prefix(a), "lib"), "pkgconfig")
    IN  IF exists(f, directory) THEN <<directory>> ELSE <<>>

\* Mutant: NDK_HOME is preferred to ANDROID_NDK.
configure_android_path_ndk_home_first(command) ==
    IF ndk_toolchain = <<>>
    THEN [ok |-> FALSE, command |-> command, error |-> "Ndk::from_env: NDK not found"]
    ELSE IF ~HasVar(env, "PATH")
    THEN [ok |-> FALSE, command |-> command, error |-> "PATH must be set"]
    ELSE IF ~HasVar(env, "ANDROID_NDK") /\ ~HasVar(env, "NDK_HOME")
    THEN [ok |-> FALSE, command |-> command,
          error |-> "ANDROID_NDK or NDK_HOME must be defined"]
    ELSE LET new_path == display(join(ndk_toolchain, "bin")) \o ":" \o Var(env, "PATH")
             ndk_root == IF HasVar(env, "NDK_HOME") THEN Var(env, "NDK_HOME")
                         ELSE Var(env, "ANDROID_NDK")
         IN  [ok |-> TRUE,
              command |-> [command EXCEPT !.envs =
                              Overlay(@, {<<"PATH", new_path>>, <<"ANDROID_NDK_ROOT", ndk_root>>})],
              error |-> ""]

\* Returns [ok, command, error]: the command with PATH and ANDROID_NDK_ROOT set,
\* or the message of the unwrap/expect that panicked.
configure_android_path(command) ==
    IF ndk_toolchain = <<>>
    THEN [ok |-> FALSE, command |-> command, error |-> "Ndk::from_env: NDK not found"]
    ELSE IF ~HasVar(env, "PATH")
    THEN [ok |-> FALSE, command |-> command, error |-> "PATH must be set"]
    ELSE IF ~HasVar(env, "ANDROID_NDK") /\ ~HasVar(env, "NDK_HOME")
    THEN [ok |-> FALSE, command |-> command,
          error |-> "ANDROID_NDK or NDK_HOME must be defined"]
    ELSE LET new_path == display(join(ndk_toolchain, "bin")) \o ":" \o Var(env, "PATH")
             ndk_root == IF HasVar(env, "ANDROID_NDK") THEN Var(env, "ANDROID_NDK")
                         ELSE Var(env, "NDK_HOME")
         IN  [ok |-> TRUE,
              command |-> [command EXCEPT !.envs =
                              Overlay(@, {<<"PATH", new_path>>, <<"ANDROID_NDK_ROOT", ndk_root>>})],
              error |-> ""]

\* Mutant: Configure runs whether or not the makefile is there.
needs_configure_always(a, f) == TRUE

\* The "makefile" gate of force_compile.
needs_configure(a, f) == ~exists(f, join(makefile_dir(a), "makefile"))

configure_args(a) ==
    << display(join(source_directory(a), "Configure")),
       "--" \o profile(context),
       "--prefix=" \o display(native_library_prefix(a)),
       "--openssldir=" \o display(native_library_prefix(a)),
       compiler(context.target),
       "OPT_LEVEL=3" >>
    \o (IF is_static(a) THEN <<"no-shared">> ELSE <<>>)
    \o (IF is_android(context.target)
        THEN << "-D__ANDROID_API__" \o ToString(context.android_target_api) \o "=" >>
        ELSE <<>>)

\* The perl command of force_compile, as it stands when status() is called.
configure_command(a) ==
    LET command == [program |-> "perl", args |-> configure_args(a),
                    current_dir |-> makefile_dir(a), envs |-> {}]
    IN  IF is_android(context.target) THEN configure_android_path(command)
        ELSE [ok |-> TRUE, command |-> command, error |-> ""]

\* Mutant: the toolchain's environment is not handed to nmake.
nmake_command_without_envs(a) ==
    LET build_tools_dir == SubSeq(msvc.path, 1, Len(msvc.path) - 1)
        nmake == join(build_tools_dir, "nmake.exe")
    IN  IF ~msvc.nmake
        THEN [ok |-> FALSE, command |-> NoCommand,
              error |-> "Could not find nmake.exe in " \o display(build_tools_dir)]
        ELSE [ok |-> TRUE,
              command |-> [program |-> display(nmake), args |-> <<"install_sw">>,
                           current_dir |-> makefile_dir(a), envs |-> {}],
              error |-> ""]

nmake_command(a) ==
    LET build_tools_dir == SubSeq(msvc.path, 1, Len(msvc.path) - 1)
        nmake == join(build_tools_dir, "nmake.exe")
    IN  IF ~msvc.nmake
        THEN [ok |-> FALSE, command |-> NoCommand,
              error |-> "Could not find nmake.exe in " \o display(build_tools_dir)]
        ELSE [ok |-> TRUE,
              command |-> [program |-> display(nmake), args |-> <<"install_sw">>,
                           current_dir |-> makefile_dir(a), envs |-> msvc.env],
              error |-> ""]

make_command(a) ==
    LET command == [program |-> "make", args |-> <<"install_sw">>,
                    current_dir |-> makefile_dir(a), envs |-> {}]
    IN  IF is_android(context.target) THEN configure_android_path(command)
        ELSE [ok |-> TRUE, command |-> command, error |-> ""]

install_command(a) ==
    IF is_windows(context.target) THEN nmake_command(a) ELSE make_command(a)

\* What the spawned process sees: std::process::Command inherits the parent's
\* environment unless env_clear() is called, and force_compile never calls it.
ChildEnv(command) == Overlay(env, command.envs)

----------------------------------------------------------------------------
(* force_compile, cut where it blocks on a child process *)

\* Lines 155-189: build the install command and spawn it, or panic.
install_stage(a) ==
    LET r == install_command(a)
    IN  IF r.ok
        THEN [pc |-> "installing", error |-> "", child |-> r.command, ev |-> <<"install">>]
        ELSE [pc |-> "failed", error |-> r.error, child |-> NoCommand, ev |-> <<>>]

\* Lines 112-148: create the prefix, then Configure unless the makefile is there.
force_compile(a, f) ==
    LET out_dir == native_library_prefix(a)
        f1 == IF ~exists(f, out_dir) THEN create_dir_all(f, out_dir) ELSE f
    IN  IF needs_configure(a, f1)
        THEN LET r == configure_command(a)
             IN  IF r.ok
                 THEN [fs |-> f1, pc |-> "configuring", error |-> "",
                       child |-> r.command, ev |-> <<"configure">>]
                 ELSE [fs |-> f1, pc |-> "failed", error |-> r.error,
                       child |-> NoCommand, ev |-> <<>>]
        ELSE LET i == install_stage(a)
             IN  [fs |-> f1, pc |-> i.pc, error |-> i.error,
                  child |-> i.child, ev |-> <<"skip">> \o i.ev]

\* Mutant: Configure's exit status is not looked at.
after_configure_unchecked(a, code) ==
    LET i == install_stage(a)
    IN  [pc |-> i.pc, error |-> i.error,
         child |-> IF i.pc = "failed" THEN child[a] ELSE i.child,
         ev |-> <<(IF code = 0 THEN "configure_ok" ELSE "configure_failed")>> \o i.ev]

\* Lines 148-153: Configure has exited with code.
after_configure(a, code) ==
    IF code # 0
    THEN [pc |-> "failed", error |-> "Could not configure " \o name(a),
          child |-> child[a], ev |-> <<"configure_failed">>]
    ELSE LET i == install_stage(a)
         IN  [pc |-> i.pc, error |-> i.error,
              child |-> IF i.pc = "failed" THEN child[a] ELSE i.child,
              ev |-> <<"configure_ok">> \o i.ev]

\* Lines 191-194: the install command has exited with code.
after_install(a, code) ==
    IF code # 0
    THEN [pc |-> "failed", error |-> "Could not compile " \o name(a), ev |-> <<"install_failed">>]
    ELSE [pc |-> "done", error |-> "", ev |-> <<"install_ok">>]

----------------------------------------------------------------------------
(* The external processes *)

ExitCodes == {0, 1}

\* Configure runs in current_dir and may or may not leave a makefile there.
ConfigureWrites(command) == { {}, {join(command.current_dir, "makefile")} }

\* install_sw installs below the prefix Configure was given, current_dir/build
\* (lines 119 and 220-222 both start from build_root.join(name)).
InstallWrites(command) ==
    LET prefix == join(command.current_dir, "build")
    IN  { {},
          {join(prefix, "include"), join(prefix, "lib")},
          {join(prefix, "include"), join(prefix, "lib"), join(prefix, "bin"),
           join(join(prefix, "lib"), "pkgconfig")} }

----------------------------------------------------------------------------
(* Inputs *)

AllTools == {"perl", "make", "nasm"}

HomeVar == <<"HOME", "/home/builder">>
PathVar == <<"PATH", "/usr/bin">>
AndroidNdkVar == <<"ANDROID_NDK", "/opt/ndk-a">>
NdkHomeVar == <<"NDK_HOME", "/opt/ndk-b">>

FullEnv == {HomeVar, PathVar, AndroidNdkVar, NdkHomeVar}

Envs == { {HomeVar} \cup s : s \in SUBSET {PathVar, AndroidNdkVar, NdkHomeVar} }

NdkToolchain == <<"ndk", "toolchains", "llvm", "prebuilt", "host">>

MsvcEnv == {<<"PATH", "msvc/bin">>, <<"LIB", "msvc/lib">>, <<"INCLUDE", "msvc/include">>}

MsvcTool == [path |-> <<"msvc", "bin", "cl.exe">>, env |-> MsvcEnv, nmake |-> TRUE]

MsvcTools ==
    { MsvcTool,
      [path |-> <<"msvc", "bin", "cl.exe">>, env |-> MsvcEnv, nmake |-> FALSE],
      [path |-> <<"cl.exe">>, env |-> {}, nmake |-> FALSE] }

LowestApi == CHOOSE n \in ApiLevels : \A m \in ApiLevels : n <= m

\* The inputs a target does not read are held at one value.
InitInputs ==
    /\ \E t \in Targets, d \in BOOLEAN, api \in ApiLevels :
          /\ is_android(t) \/ api = LowestApi
          /\ context = [sources_root |-> <<"target", "src">>, build_root |-> <<"target">>,
                        target |-> t, debug |-> d, android_target_api |-> api]
    /\ tools \in SUBSET AllTools
    /\ env \in IF is_android(context.target) THEN Envs ELSE {FullEnv}
    /\ ndk_toolchain \in IF is_android(context.target) THEN {<<>>, NdkToolchain}
                         ELSE {NdkToolchain}
    /\ msvc \in IF is_windows(context.target) THEN MsvcTools ELSE {MsvcTool}

InitState ==
    /\ fs = Ancestors(context.sources_root)
    /\ pc = [a \in Artefacts |-> "idle"]
    /\ error = [a \in Artefacts |-> ""]
    /\ steps = [a \in Artefacts |-> <<>>]
    /\ child = [a \in Artefacts |-> NoCommand]
    /\ builds = [a \in Artefacts |-> 0]
    /\ cfgTotal = [a \in Artefacts |-> 0]
    /\ preMarker = [a \in Artefacts |-> <<>>]
    /\ result = NoResult

\* One descriptor, any context and options.
Init ==
    /\ InitInputs
    /\ active \in {{a} : a \in Artefacts}
    /\ \E st \in BOOLEAN :
          options = [a \in Artefacts |-> [is_static |-> st /\ a \in active]]
    /\ InitState

\* The builder's main: libcrypto and libssl, default options, debug = false.
InitMain ==
    /\ InitInputs
    /\ context.debug = FALSE
    /\ active = Artefacts
    /\ options = [a \in Artefacts |-> [is_static |-> FALSE]]
    /\ InitState

----------------------------------------------------------------------------
(* Vocabulary of the properties and of the history variables, written out
   independently of the operators above: artifact names and the layout. *)

ArtifactName(a) == IF a = "Crypto" THEN "crypto" ELSE "ssl"

ArtifactTree(a) == <<"target", ArtifactName(a)>>

Prefix(a) == <<"target", ArtifactName(a), "build">>

Marker(a) == <<"target", ArtifactName(a), "makefile">>

----------------------------------------------------------------------------
(* Actions *)

Started == builds["Crypto"] + builds["Ssl"]

\* Library::compile: ensure_requirements, then force_compile up to its first child.
Compile(a) ==
    /\ a \in active
    /\ pc[a] \in {"idle", "done", "failed"}
    /\ Started < MaxBuilds
    /\ builds' = [builds EXCEPT ![a] = @ + 1]
    /\ preMarker' = [preMarker EXCEPT ![a] = Append(@, Marker(a) \in fs)]
    /\ LET req == ensure_requirements(context.target, tools)
       IN  IF req # ""
           THEN /\ pc' = [pc EXCEPT ![a] = "failed"]
                /\ error' = [error EXCEPT ![a] = req]
                /\ steps' = [steps EXCEPT ![a] = <<"requirements">>]
                /\ child' = [child EXCEPT ![a] = NoCommand]
                /\ UNCHANGED <<fs, cfgTotal>>
           ELSE LET r == force_compile(a, fs)
                IN  /\ fs' = r.fs
                    /\ pc' = [pc EXCEPT ![a] = r.pc]
                    /\ error' = [error EXCEPT ![a] = r.error]
                    /\ steps' = [steps EXCEPT ![a] = <<"requirements">> \o r.ev]
                    /\ child' = [child EXCEPT ![a] = r.child]
                    /\ cfgTotal' = [cfgTotal EXCEPT ![a] =
                                       IF r.pc = "configuring" THEN @ + 1 ELSE @]
    /\ result' = NoResult
    /\ UNCHANGED inputs

ConfigureExit(a) ==
    /\ pc[a] = "configuring"
    /\ \E code \in ExitCodes, wrote \in ConfigureWrites(child[a]) :
          LET r == after_configure(a, code)
          IN  /\ fs' = fs \cup wrote
              /\ pc' = [pc EXCEPT ![a] = r.pc]
              /\ error' = [error EXCEPT ![a] = r.error]
              /\ steps' = [steps EXCEPT ![a] = @ \o r.ev]
              /\ child' = [child EXCEPT ![a] = r.child]
    /\ result' = NoResult
    /\ UNCHANGED <<inputs, builds, cfgTotal, preMarker>>

InstallExit(a) ==
    /\ pc[a] = "installing"
    /\ \E code \in ExitCodes, wrote \in InstallWrites(child[a]) :
          LET r == after_install(a, code)
          IN  /\ fs' = fs \cup wrote
              /\ pc' = [pc EXCEPT ![a] = r.pc]
              /\ error' = [error EXCEPT ![a] = r.error]
              /\ steps' = [steps EXCEPT ![a] = @ \o r.ev]
    /\ result' = NoResult
    /\ UNCHANGED <<inputs, child, builds, cfgTotal, preMarker>>

Returned(op, a, dirs, text) == [op |-> op, artefact |-> a, dirs |-> dirs, text |-> text]

CallCompiler(a) ==
    /\ a \in active
    /\ result' = Returned("compiler", a, <<>>, compiler(context.target))
    /\ UNCHANGED <<inputs, fs, pc, error, steps, child, builds, cfgTotal, preMarker>>

CallCompiledLibraryDirectories(a) ==
    /\ a \in active
    /\ result' = Returned("compiled_library_directories", a,
                          compiled_library_directories(a), "")
    /\ UNCHANGED <<inputs, fs, pc, error, steps, child, builds, cfgTotal, preMarker>>

CallIncludeHeaders(a) ==
    /\ a \in active
    /\ result' = Returned("native_library_include_headers", a,
                          native_library_include_headers(a, fs), "")
    /\ UNCHANGED <<inputs, fs, pc, error, steps, child, builds, cfgTotal, preMarker>>

CallLinkerLibraries(a) ==
    /\ a \in active
    /\ result' = Returned("native_library_linker_libraries", a,
                          native_library_linker_libraries(a, fs), "")
    /\ UNCHANGED <<inputs, fs, pc, error, steps, child, builds, cfgTotal, preMarker>>

CallPkgConfigDirectory(a) ==
    /\ a \in active
    /\ result' = Returned("pkg_config_directory", a, pkg_config_directory(a, fs), "")
    /\ UNCHANGED <<inputs, fs, pc, error, steps, child, builds, cfgTotal, preMarker>>

Build(a) == Compile(a) \/ ConfigureExit(a) \/ InstallExit(a)

Next ==
    \E a \in Artefacts :
        \/ Compile(a)
        \/ ConfigureExit(a)
        \/ InstallExit(a)
        \/ CallCompiler(a)
        \/ CallCompiledLibraryDirectories(a)
        \/ CallIncludeHeaders(a)
        \/ CallLinkerLibraries(a)
        \/ CallPkgConfigDirectory(a)

Spec == Init /\ [][Next]_vars

NextMain == \E a \in Artefacts : Build(a)

SpecMain == InitMain /\ [][NextMain]_vars

----------------------------------------------------------------------------
(* More vocabulary of the properties: the platform families, sequences. *)

UnixTargets ==
    { "X8664appleDarwin", "AArch64appleDarwin", "X8664UnknownlinuxGNU",
      "AArch64UnknownlinuxGNU", "AArch64LinuxAndroid" }

WindowsTargets == {"X8664pcWindowsMsvc", "AArch64pcWindowsMsvc"}

Range(seq) == { seq[i] : i \in DOMAIN seq }

Count(seq, x) == Cardinality({ i \in DOMAIN seq : seq[i] = x })

Prefixes(seq) == { SubSeq(seq, 1, n) : n \in 0..Len(seq) }

Last(seq) == IF seq = <<>> THEN "" ELSE seq[Len(seq)]

Running(a) == a \in active /\ pc[a] \in {"configuring", "installing"}

RequiredTools ==
    {"perl"} \cup (IF context.target \in UnixTargets THEN {"make"} ELSE {})
             \cup (IF context.target \in WindowsTargets THEN {"nasm"} ELSE {})

MissingTools == RequiredTools \ tools

NdkVarsSet == HasVar(env, "ANDROID_NDK") \/ HasVar(env, "NDK_HOME")

\* Nothing stops a build before its first child process: the tools are there
\* and, for Android, so are the NDK, PATH and one of the NDK variables.
SetupOk ==
    /\ MissingTools = {}
    /\ context.target = "AArch64LinuxAndroid" =>
          ndk_toolchain # <<>> /\ HasVar(env, "PATH") /\ NdkVarsSet

----------------------------------------------------------------------------
(* C1 *)

\* C1 (as claimed): two invocations in a row of the same descriptor's build,
\* both reaching the makefile gate, spawn Configure exactly once.
C1_ExactlyOneConfigure ==
    \A a \in active :
        (SetupOk /\ builds[a] = 2 /\ pc[a] \in {"done", "failed"}) => cfgTotal[a] = 1

\* C1 (amended): an invocation spawns Configure at most once and only when the
\* makefile marker is absent at its start; with the marker present it spawns
\* none; two invocations spawn exactly one Configure when the marker was absent
\* before the first and present before the second.
C1_ConfigureGatedByMarker ==
    \A a \in active :
        /\ Count(steps[a], "configure") <= 1
        /\ (builds[a] > 0 /\ preMarker[a][builds[a]]) => "configure" \notin Range(steps[a])
        /\ cfgTotal[a] <= Count(preMarker[a], FALSE)
        /\ (builds[a] >= 2 /\ ~preMarker[a][1] /\ preMarker[a][2]) => cfgTotal[a] = 1

C1_Witness ==
    \E a \in active :
        /\ builds[a] = 2 /\ pc[a] = "done"
        /\ ~preMarker[a][1] /\ preMarker[a][2]
        /\ steps[a] = <<"requirements", "skip", "install", "install_ok">>
        /\ cfgTotal[a] = 1

----------------------------------------------------------------------------
(* C2 *)

----------------------------------------------------------------------------
(* C3 *)

CompilerTable(t) ==
    CASE t = "X8664appleDarwin"       -> "darwin64-x86_64-cc"
      [] t = "AArch64appleDarwin"     -> "darwin64-arm64-cc"
      [] t = "X8664pcWindowsMsvc"     -> "VC-WIN64A"
      [] t = "AArch64pcWindowsMsvc"   -> "VC-WIN64-ARM"
      [] t = "X8664UnknownlinuxGNU"   -> "linux-x86_64-clang"
      [] t = "AArch64UnknownlinuxGNU" -> "linux-aarch64"
      [] t = "AArch64LinuxAndroid"    -> "android-arm64"

\* C3: compiler(context) returns the table's identifier for the context's
\* target, whatever the descriptor, profile, options and build state.
C3_CompilerIdentifier ==
    result.op = "compiler" => result.text = CompilerTable(context.target)

C3_Witness ==
    /\ result.op = "compiler"
    /\ result.artefact = "Ssl"
    /\ context.debug
    /\ result.text = "linux-x86_64-clang"

----------------------------------------------------------------------------
(* C4 *)

\* C4: whenever Configure is running, its arguments are, in order: the Configure
\* script, --<profile>, --prefix=<P>, --openssldir=<P>, the compiler
\* identifier, OPT_LEVEL=3, no-shared iff static, -D__ANDROID_API__=<n> iff
\* the target is Android.
C4_ConfigureArguments ==
    \A a \in active :
        pc[a] = "configuring" =>
            /\ child[a].program = "perl"
            /\ child[a].args =
                  << "target/src/openssl/Configure",
                     IF context.debug THEN "--debug" ELSE "--release",
                     "--prefix=target/" \o ArtifactName(a) \o "/build",
                     "--openssldir=target/" \o ArtifactName(a) \o "/build",
                     CompilerTable(context.target),
                     "OPT_LEVEL=3" >>
                  \o (IF options[a].is_static THEN <<"no-shared">> ELSE <<>>)
                  \o (IF context.target = "AArch64LinuxAndroid"
                      THEN << "-D__ANDROID_API__=" \o ToString(context.android_target_api) >>
                      ELSE <<>>)

----------------------------------------------------------------------------
(* C5 *)

InvocationOrders ==
    UNION { Prefixes(o) : o \in
        { <<"requirements", "configure", "configure_failed">>,
          <<"requirements", "configure", "configure_ok", "install", "install_ok">>,
          <<"requirements", "configure", "configure_ok", "install", "install_failed">>,
          <<"requirements", "skip", "install", "install_ok">>,
          <<"requirements", "skip", "install", "install_failed">> } }

C5_Ordered(a) ==
    /\ steps[a] \in InvocationOrders
    /\ pc[a] = "configuring" <=> Last(steps[a]) = "configure"
    /\ pc[a] = "installing" <=> Last(steps[a]) = "install"
    /\ pc[a] = "done" <=> Last(steps[a]) = "install_ok"
    /\ "configure_failed" \in Range(steps[a]) =>
          /\ pc[a] = "failed"
          /\ error[a] = "Could not configure " \o ArtifactName(a)
          /\ "install" \notin Range(steps[a])
    /\ "install_failed" \in Range(steps[a]) =>
          /\ pc[a] = "failed"
          /\ error[a] = "Could not compile " \o ArtifactName(a)
    /\ Count(steps[a], "configure") <= 1
    /\ Count(steps[a], "install") <= 1

\* Within one invocation a failed build stays failed and does nothing more.
C5_Absorbing(a) ==
    (pc[a] = "failed" /\ builds'[a] = builds[a]) =>
        /\ pc'[a] = "failed"
        /\ steps'[a] = steps[a]
        /\ error'[a] = error[a]
        /\ fs' = fs

\* C5: an invocation runs requirements check, Configure or skip, install, done,
\* in that order; a nonzero Configure fails the build naming the artifact with
\* no install spawned; a nonzero install fails it naming the artifact; done
\* only after the install exited zero; nothing is retried; failed is absorbing.
C5_FailureOrderedAbsorbing ==
    /\ [](\A a \in active : C5_Ordered(a))
    /\ [][\A a \in active : C5_Absorbing(a)]_vars

C5_Witness ==
    \E a \in active :
        /\ steps[a] = <<"requirements", "configure", "configure_failed">>
        /\ pc[a] = "failed"
        /\ error[a] = "Could not configure " \o ArtifactName(a)
        /\ child[a].program = "perl"

----------------------------------------------------------------------------
(* C6 and C7 *)

OutputPath(op, a) ==
    CASE op = "compiled_library_directories" ->
             Prefix(a) \o (IF context.target \in WindowsTargets THEN <<"bin">> ELSE <<"lib">>)
      [] op = "native_library_include_headers" -> Prefix(a) \o <<"include">>
      [] op = "native_library_linker_libraries" -> Prefix(a) \o <<"lib">>
      [] op = "pkg_config_directory" -> Prefix(a) \o <<"lib", "pkgconfig">>

IfOnDisk(op, a) == IF OutputPath(op, a) \in fs THEN <<OutputPath(op, a)>> ELSE <<>>

CheckingAccessors ==
    { "native_library_include_headers", "native_library_linker_libraries",
      "pkg_config_directory" }

\* C6 (as claimed): each of the four output accessors returns its path when it
\* exists on disk at the call and empty/absent when it does not.
C6_AllFourCheckExistence ==
    result.op \in CheckingAccessors \cup {"compiled_library_directories"} =>
        result.dirs = IfOnDisk(result.op, result.artefact)

\* C6 (amended): at every call, in any build state, include, linker and
\* pkg-config accessors return their path iff it exists on disk at the call;
\* compiled_library_directories returns its path whether or not it exists;
\* and no accessor call changes the filesystem.
C6_AccessorsAtCallTime ==
    /\ [](/\ result.op \in CheckingAccessors =>
                result.dirs = IfOnDisk(result.op, result.artefact)
          /\ result.op = "compiled_library_directories" =>
                result.dirs = <<OutputPath(result.op, result.artefact)>>)
    /\ [][result' # NoResult => fs' = fs]_vars

C6_Witness ==
    /\ result.op = "pkg_config_directory"
    /\ result.dirs = <<Prefix(result.artefact) \o <<"lib", "pkgconfig">>>>
    /\ pc[result.artefact] = "installing"
    /\ builds[result.artefact] = 2

\* C7: compiled_library_directories returns exactly <prefix>/lib on the five
\* Unix targets and exactly <prefix>/bin on the two Windows targets, never
\* the empty list.
C7_CompiledLibraryDirectories ==
    result.op = "compiled_library_directories" =>
        /\ context.target \in UnixTargets =>
              result.dirs = << Prefix(result.artefact) \o <<"lib">> >>
        /\ context.target \in WindowsTargets =>
              result.dirs = << Prefix(result.artefact) \o <<"bin">> >>
        /\ result.dirs # <<>>

C7_Witness ==
    /\ result.op = "compiled_library_directories"
    /\ context.target = "AArch64pcWindowsMsvc"
    /\ result.dirs = << <<"target", "ssl", "build", "bin">> >>
    /\ <<"target", "ssl", "build", "bin">> \notin fs

----------------------------------------------------------------------------
(* C8 *)

Other(a) == CHOOSE b \in Artefacts : b # a

Outputs(a, f) ==
    << compiled_library_directories(a), native_library_include_headers(a, f),
       native_library_linker_libraries(a, f), pkg_config_directory(a, f) >>

Private(a) == <<pc[a], error[a], steps[a], child[a], builds[a], cfgTotal[a], preMarker[a]>>

\* C8: every step of one descriptor's build adds files only below
\* <build_root>/<its artifact name>, and leaves alone the other descriptor's
\* tree, makefile gate, build state, outcome and accessor results, under any
\* interleaving of the two builds.
C8_ArtifactIsolation ==
    [][\A a \in Artefacts :
          Build(a) =>
              /\ fs \subseteq fs'
              /\ \A p \in fs' \ fs : IsPrefix(ArtifactTree(a), p)
              /\ \A p \in fs' \ fs : ~IsPrefix(ArtifactTree(Other(a)), p)
              /\ (Marker(Other(a)) \in fs') = (Marker(Other(a)) \in fs)
              /\ Outputs(Other(a), fs') = Outputs(Other(a), fs)
              /\ Private(Other(a))' = Private(Other(a))]_vars

C8_Witness ==
    /\ pc["Crypto"] = "failed"
    /\ error["Crypto"] = "Could not compile crypto"
    /\ pc["Ssl"] = "done"
    /\ <<"target", "ssl", "build", "include">> \in fs
    /\ <<"target", "crypto", "build", "include">> \notin fs
    /\ native_library_include_headers("Crypto", fs) = <<>>
    /\ native_library_include_headers("Ssl", fs) = << <<"target", "ssl", "build", "include">> >>

----------------------------------------------------------------------------
(* C9 *)

InstallingOnWindows(a) ==
    a \in active /\ context.target \in WindowsTargets /\ pc[a] = "installing"

\* C9 (as claimed): every variable the nmake child sees is one the toolchain
\* probe supplied; nothing that exists only in the caller's environment is
\* inherited.
C9_OnlyToolchainEnvironment ==
    \A a \in Artefacts :
        InstallingOnWindows(a) =>
            EnvNames(ChildEnv(child[a])) \subseteq EnvNames(msvc.env)

\* C9 (amended): nmake install_sw runs with the caller's environment overlaid
\* by the probed toolchain's: every toolchain variable is visible with the
\* toolchain's value, every caller variable the toolchain does not supply is
\* inherited unchanged, and the child sees nothing else.
C9_ToolchainEnvironmentOverlaid ==
    \A a \in Artefacts :
        InstallingOnWindows(a) =>
            /\ child[a].program = "msvc/bin/nmake.exe"
            /\ child[a].args = <<"install_sw">>
            /\ child[a].envs = msvc.env
            /\ \A kv \in msvc.env : kv \in ChildEnv(child[a])
            /\ \A kv \in env : kv[1] \notin EnvNames(msvc.env) => kv \in ChildEnv(child[a])
            /\ ChildEnv(child[a]) \subseteq msvc.env \cup env

C9_Witness ==
    \E a \in Artefacts :
        /\ InstallingOnWindows(a)
        /\ <<"HOME", "/home/builder">> \in ChildEnv(child[a])
        /\ <<"PATH", "msvc/bin">> \in ChildEnv(child[a])
        /\ <<"PATH", "/usr/bin">> \notin ChildEnv(child[a])

----------------------------------------------------------------------------
(* C10 *)

DiscoveryErrors ==
    { "Ndk::from_env: NDK not found", "PATH must be set",
      "ANDROID_NDK or NDK_HOME must be defined" }

\* On Android every running child has the NDK's bin first in PATH, then the
\* caller's PATH, and ANDROID_NDK_ROOT from ANDROID_NDK, else from NDK_HOME.
C10_Injected(a) ==
    (context.target = "AArch64LinuxAndroid" /\ Running(a)) =>
        /\ HasVar(child[a].envs, "PATH") /\ HasVar(child[a].envs, "ANDROID_NDK_ROOT")
        /\ HasVar(env, "PATH")
        /\ Var(ChildEnv(child[a]), "PATH") =
              "ndk/toolchains/llvm/prebuilt/host/bin:" \o Var(env, "PATH")
        /\ Var(ChildEnv(child[a]), "ANDROID_NDK_ROOT") =
              (IF HasVar(env, "ANDROID_NDK") THEN "/opt/ndk-a" ELSE "/opt/ndk-b")

\* On Android, with the tools present but the NDK not located or neither NDK
\* variable set, the build fails with a discovery error and spawns nothing.
C10_FailsBeforeSpawn(a) ==
    ( /\ context.target = "AArch64LinuxAndroid"
      /\ a \in active /\ builds[a] > 0 /\ MissingTools = {}
      /\ (ndk_toolchain = <<>> \/ ~NdkVarsSet) ) =>
        /\ pc[a] = "failed"
        /\ error[a] \in DiscoveryErrors
        /\ steps[a] = <<"requirements">>
        /\ child[a] = NoCommand
        /\ cfgTotal[a] = 0

\* C10 (as claimed): the two Android properties, and for every other target
\* neither PATH nor ANDROID_NDK_ROOT is given to any child.
C10_AndroidInjectionOnly ==
    \A a \in Artefacts :
        /\ C10_Injected(a)
        /\ C10_FailsBeforeSpawn(a)
        /\ (context.target # "AArch64LinuxAndroid" /\ Running(a)) =>
              /\ ~HasVar(child[a].envs, "PATH")
              /\ ~HasVar(child[a].envs, "ANDROID_NDK_ROOT")

\* C10 (amended): the two Android properties; for every other target
\* ANDROID_NDK_ROOT is never given to a child and PATH never gets the NDK
\* entry: Configure and make get no variables at all, nmake exactly the
\* probed toolchain's (which may hold the toolchain's own PATH).
C10_AndroidInjection ==
    \A a \in Artefacts :
        /\ C10_Injected(a)
        /\ C10_FailsBeforeSpawn(a)
        /\ (context.target # "AArch64LinuxAndroid" /\ Running(a)) =>
              /\ ~HasVar(child[a].envs, "ANDROID_NDK_ROOT")
              /\ child[a].envs =
                    (IF context.target \in WindowsTargets /\ pc[a] = "installing"
                     THEN msvc.env ELSE {})

C10_Witness ==
    \E a \in active :
        /\ context.target = "AArch64LinuxAndroid"
        /\ pc[a] = "installing"
        /\ child[a].program = "make"
        /\ HasVar(env, "ANDROID_NDK") /\ HasVar(env, "NDK_HOME")
        /\ <<"ANDROID_NDK_ROOT", "/opt/ndk-a">> \in ChildEnv(child[a])
        /\ <<"PATH", "ndk/toolchains/llvm/prebuilt/host/bin:/usr/bin">> \in ChildEnv(child[a])

====
